---- MODULE Spec2Model ----
(***************************************************************************)
(* Image-analysis gateway: the three deployments of the repository.        *)
(*   "secured"    src/api/app.js        Express app with CORS, rate        *)
(*                                      limiter, API-key gate, Joi schema  *)
(*   "express"    src/unnamed/part_000  Express app without the gate       *)
(*   "serverless" src/api/analyze.js, src/api/batch-analyze.js,            *)
(*                src/unnamed/part_001  one function per endpoint          *)
(* A request is followed from its arrival to its response; the provider    *)
(* and the webhook are the environment and answer nondeterministically.    *)
(* Time is counted in minutes.                                             *)
(***************************************************************************)
EXTENDS Integers, Sequences, FiniteSets, TLC

VARIABLES
    variant,      \* which deployment runs
    apiKeys,      \* SECURITY_CONFIG.apiKeys
    webhookUrl,   \* whether process.env.ZAPIER_WEBHOOK_URL is set
    family,       \* the family of requests the clients send
    now,          \* Date.now(), in minutes since the process started
    hits,         \* the limiter's store: the counter of each key
    windowStart,  \* the limiter's store: when the window of each key started
    slot,         \* the requests in flight
    seen          \* history: counted requests each client identity sent in the current window

vars == <<variant, apiKeys, webhookUrl, family, now, hits, windowStart, slot, seen>>

(***************************************************************************)
(* Bounds of the model                                                     *)
(***************************************************************************)
\* requests in flight at the same time
MaxInFlight == 2
\* last minute of the clock
MaxTime == 2
\* RATE_LIMIT_MAX_REQUESTS of the modelled deployment
RateMax == 2
\* RATE_LIMIT_WINDOW_MS of the modelled deployment, in minutes
WindowMin == 2
\* requests of one identity the model follows beyond the limit
MaxOver == 1

(***************************************************************************)
(* Program constants                                                       *)
(***************************************************************************)
\* maxAge = 5 * 60 * 1000 ms
MaxAgeMin == 5
\* /^[a-f0-9]{64}$/i
KeyLen == 64
MaxPrompts == 10
MaxPromptLen == 1000
MaxTags == 20
MaxTagName == 100
MaxTagDescription == 500

Variants == {"secured", "express", "serverless"}
Slots == 1..MaxInFlight

(***************************************************************************)
(* Strings.  A string is a token; StrLen gives the length of the text it   *)
(* stands for and HasMarkup whether that text holds '<' or '>'.            *)
(***************************************************************************)
StrLen(s) ==
    CASE s = "" -> 0
      [] s = "x101" -> 101
      [] s = "x1001" -> 1001
      [] OTHER -> 5

HasMarkup(s) == s \in {"<b>"}

(***************************************************************************)
(* URLs.  The text scheme://host/path is kept as its three parts; the      *)
(* empty string is EmptyUrl, a text without scheme has scheme "".          *)
(***************************************************************************)
Url(s, h, p) == [scheme |-> s, host |-> h, path |-> p]
EmptyUrl == Url("", "", "")
GoodUrl == Url("https", "x", "img.jpg")
HttpUrl == Url("http", "cdn.example", "a.png")
LoopbackUrl == Url("http", "localhost", "a.png")
PrivateUrl == Url("http", "10.0.0.1", "a.png")
FileUrl == Url("file", "", "etc/passwd")
FtpUrl == Url("ftp", "x", "img.jpg")
RelativeUrl == Url("", "", "img.jpg")
DataPathUrl == Url("https", "x", "data:1")

\* Joi.string().uri({ scheme: ['http', 'https'] }): an absolute URI of one of the schemes
JoiUri(u) == u.scheme \in {"http", "https"} /\ u.host # ""

\* /^https?:\/\//.test(text)
HttpPrefix(u) == u.scheme \in {"http", "https"}

\* new URL(text) does not throw: the text has a scheme
UrlParses(u) == u.scheme # "" /\ (u.scheme \in {"http", "https", "ftp"} => u.host # "")

\* /(localhost|127\.0\.0\.1|0\.0\.0\.0|file:|data:)/i matches somewhere in the text
BlockedMatch(u) ==
    \/ u.host \in {"localhost", "127.0.0.1", "0.0.0.0"}
    \/ u.scheme \in {"file", "data"}
    \/ u.path \in {"data:1", "file:x", "localhost"}

(***************************************************************************)
(* JSON objects are functions from field names; an absent field is not in  *)
(* the domain.                                                             *)
(***************************************************************************)
Has(o, f) == f \in DOMAIN o
Obj0 == [f \in {} |-> ""]
Set1(f, v) == [g \in {f} |-> v]
\* a string field read with o.f: "undefined" when absent
Str(o, f) == IF Has(o, f) THEN o[f] ELSE "undefined"

NoError == [field |-> "", kind |-> ""]
Err(f, k) == [field |-> f, kind |-> k]

\* Joi stops at the first error (abortEarly): the first error of a list of checks
FirstError(checks) ==
    IF \E i \in 1..Len(checks) : checks[i] # NoError
    THEN checks[CHOOSE i \in 1..Len(checks) :
                  /\ checks[i] # NoError
                  /\ \A j \in 1..(i - 1) : checks[j] = NoError]
    ELSE NoError

(***************************************************************************)
(* analyzeSchema                                                           *)
(***************************************************************************)
\* Joi.string().max(n) [.pattern(/^[^<>]*$/)] on one value
JoiString(field, s, max, guardMarkup) ==
    IF s = "" THEN Err(field, "string.empty")
    ELSE IF StrLen(s) > max THEN Err(field, "string.max")
    ELSE IF guardMarkup /\ HasMarkup(s) THEN Err(field, "string.pattern.name")
    ELSE NoError

\* imageUrl: Joi.string().uri({scheme}).required(), in app.js with the two patterns
JoiImageUrl(body, patterns) ==
    IF ~Has(body, "imageUrl") THEN Err("imageUrl", "any.required")
    ELSE IF body.imageUrl = EmptyUrl THEN Err("imageUrl", "string.empty")
    ELSE IF ~JoiUri(body.imageUrl) THEN Err("imageUrl", "string.uriCustomScheme")
    ELSE IF patterns /\ ~HttpPrefix(body.imageUrl) THEN Err("imageUrl", "string.pattern.name")
    ELSE IF patterns /\ BlockedMatch(body.imageUrl)
         THEN Err("imageUrl", "string.pattern.invert.name")
    ELSE NoError

AnalysisTypes == {"ai_vision_general", "ai_vision_moderation", "ai_vision_tagging"}

\* analysis_type: Joi.string().valid(...).required()
JoiAnalysisType(body) ==
    IF ~Has(body, "analysis_type") THEN Err("analysis_type", "any.required")
    ELSE IF body.analysis_type \notin AnalysisTypes THEN Err("analysis_type", "any.only")
    ELSE NoError

\* prompts: Joi.array().items(Joi.string().max(1000)).max(10).when('analysis_type', not tagging: required)
JoiPrompts(body) ==
    IF ~Has(body, "prompts")
    THEN IF Str(body, "analysis_type") # "ai_vision_tagging"
         THEN Err("prompts", "any.required") ELSE NoError
    ELSE LET p == body.prompts IN
         FirstError([i \in 1..Len(p) |-> JoiString("prompts", p[i], MaxPromptLen, FALSE)]
                    \o << IF Len(p) > MaxPrompts THEN Err("prompts", "array.max") ELSE NoError >>)

\* one entry of tags: Joi.object({name, description}); a key the schema does not name is an error
JoiTag(tag, guardMarkup) ==
    FirstError(<<
        IF ~Has(tag, "name") THEN Err("tags", "any.required")
        ELSE JoiString("tags", tag.name, MaxTagName, guardMarkup),
        IF ~Has(tag, "description") THEN Err("tags", "any.required")
        ELSE JoiString("tags", tag.description, MaxTagDescription, guardMarkup),
        IF DOMAIN tag \subseteq {"name", "description"} THEN NoError
        ELSE Err("tags", "object.unknown") >>)

\* tags: Joi.array().items(...).max(20).when('analysis_type', is tagging: required)
JoiTags(body, guardMarkup) ==
    IF ~Has(body, "tags")
    THEN IF Str(body, "analysis_type") = "ai_vision_tagging"
         THEN Err("tags", "any.required") ELSE NoError
    ELSE LET t == body.tags IN
         FirstError([i \in 1..Len(t) |-> JoiTag(t[i], guardMarkup)]
                    \o << IF Len(t) > MaxTags THEN Err("tags", "array.max") ELSE NoError >>)

SchemaKeys == {"imageUrl", "analysis_type", "prompts", "tags", "multi_label"}

\* a key of the body the schema does not name: '"<key>" is not allowed'
JoiUnknown(body) ==
    IF DOMAIN body \subseteq SchemaKeys THEN NoError
    ELSE Err(CHOOSE k \in DOMAIN body \ SchemaKeys : TRUE, "object.unknown")

\* analyzeSchema.validate(body).error; secured = the schema of app.js (patterns), else of part_000
analyzeSchema(body, secured) ==
    FirstError(<< JoiImageUrl(body, secured),
                  JoiAnalysisType(body),
                  JoiPrompts(body),
                  JoiTags(body, secured),
                  JoiUnknown(body) >>)

(***************************************************************************)
(* Responses                                                               *)
(***************************************************************************)
\* res.status(status).json({error, code, message naming `names`, details}) or res.json(data)
Rsp(status, error, code, names, details, data) ==
    [status |-> status, error |-> error, code |-> code, names |-> names,
     details |-> details, data |-> data]
NoRsp == Rsp(0, "", "", {}, "", "")

\* what the synchronous part of a handler decides: a response, or one call to the provider
Respond(r) == [call |-> FALSE, rsp |-> r, endpoint |-> "", payload |-> Obj0]
CallProvider(type, payload) == [call |-> TRUE, rsp |-> NoRsp, endpoint |-> type, payload |-> payload]

(***************************************************************************)
(* Payload mapping                                                         *)
(***************************************************************************)
\* { name: tag.name, description: tag.description }: a field the tag lacks is undefined
\* and is not serialized
formatTag(tag) == [f \in {"name", "description"} \cap DOMAIN tag |-> tag[f]]

formattedTags(tags) == [i \in 1..Len(tags) |-> formatTag(tags[i])]

\* { source: { uri: o.imageUrl }, ...parameters }; an undefined uri is not serialized
Payload(o, parameters) ==
    Set1("source", IF Has(o, "imageUrl") THEN Set1("uri", o.imageUrl) ELSE Obj0) @@ parameters

\* the switch of POST /analyze with multi_label copied whatever the type
analyzeParametersMultiLabel(body) ==
    LET type == Str(body, "analysis_type")
        ml == IF Has(body, "multi_label") THEN Set1("multi_label", body.multi_label) ELSE Obj0
    IN
    CASE type = "ai_vision_general" ->
           (IF Has(body, "prompts") THEN Set1("prompts", body.prompts) ELSE Obj0) @@ ml
      [] type = "ai_vision_moderation" ->
           (IF Has(body, "prompts") THEN Set1("rejection_questions", body.prompts) ELSE Obj0) @@ ml
      [] type = "ai_vision_tagging" -> Set1("tag_definitions", formattedTags(body.tags)) @@ ml
      [] OTHER -> Obj0

\* the switch of POST /analyze in app.js and part_000 (no default case)
analyzeParameters(body) ==
    LET type == Str(body, "analysis_type") IN
    CASE type = "ai_vision_general" ->
           IF Has(body, "prompts") THEN Set1("prompts", body.prompts) ELSE Obj0
      [] type = "ai_vision_moderation" ->
           IF Has(body, "prompts") THEN Set1("rejection_questions", body.prompts) ELSE Obj0
      [] type = "ai_vision_tagging" ->
           Set1("tag_definitions", formattedTags(body.tags))
           @@ (IF Has(body, "multi_label") THEN Set1("multi_label", body.multi_label) ELSE Obj0)
      [] OTHER -> Obj0

\* the switch of api/analyze.js: prompts || [], tags || []
fnAnalyzeParameters(body) ==
    LET type == Str(body, "analysis_type") IN
    CASE type = "ai_vision_general" ->
           Set1("prompts", IF Has(body, "prompts") THEN body.prompts ELSE <<>>)
      [] type = "ai_vision_moderation" ->
           Set1("rejection_questions", IF Has(body, "prompts") THEN body.prompts ELSE <<>>)
      [] type = "ai_vision_tagging" ->
           Set1("tag_definitions", formattedTags(IF Has(body, "tags") THEN body.tags ELSE <<>>))
           @@ (IF Has(body, "multi_label") THEN Set1("multi_label", body.multi_label) ELSE Obj0)
      [] OTHER -> Obj0

\* the switch of POST /batch-analyze (app.js and api/batch-analyze.js), its default case apart
batchParameters(body) ==
    LET type == Str(body, "analysisType") IN
    CASE type = "ai_vision_general" ->
           IF Has(body, "analysisData") THEN Set1("prompts", body.analysisData) ELSE Obj0
      [] type = "ai_vision_moderation" ->
           IF Has(body, "analysisData") THEN Set1("rejection_questions", body.analysisData)
           ELSE Obj0
      [] type = "ai_vision_tagging" ->
           Set1("tag_definitions", formattedTags(body.analysisData))
           @@ (IF Has(body, "multiLabel") THEN Set1("multi_label", body.multiLabel) ELSE Obj0)
      [] OTHER -> Obj0

\* the switch of GET /analyze-image comparing the keys without regard to case
legacyTypeAnyCase(appKey) ==
    CASE appKey \in {"fGr3Ase", "fgr3ase"} -> "ai_vision_tagging"
      [] appKey = "88330fgvv" -> "ai_vision_moderation"
      [] appKey = "gie3faavv3r1" -> "ai_vision_general"
      [] OTHER -> ""

\* the table of GET /analyze-image: appKey -> analysisType
legacyType(appKey) ==
    CASE appKey = "fGr3Ase" -> "ai_vision_tagging"
      [] appKey = "88330fgvv" -> "ai_vision_moderation"
      [] appKey = "gie3faavv3r1" -> "ai_vision_general"
      [] OTHER -> ""

\* the table of GET /analyze-image: appKey -> parameters
legacyParameters(appKey) ==
    CASE appKey = "fGr3Ase" ->
           Set1("tag_definitions", << [name |-> "prompt1", description |-> "Tag for prompt1"],
                                      [name |-> "prompt2", description |-> "Tag for prompt2"] >>)
      [] appKey = "88330fgvv" -> Set1("rejection_questions", << "is it safe?" >>)
      [] appKey = "gie3faavv3r1" ->
           Set1("prompts", << "write a very long song about this image" >>)
      [] OTHER -> Obj0

(***************************************************************************)
(* Requests                                                                *)
(***************************************************************************)
\* an X-API-Key header: its text, the length of the text, whether the text is all hex digits
Key(text, len, hex) == [text |-> text, len |-> len, hex |-> hex]
NoKey == Key("", 0, TRUE)
K1 == Key("k1", KeyLen, TRUE)
K2 == Key("k2", KeyLen, TRUE)
K3 == Key("k3", KeyLen, TRUE)
ShortKey == Key("short", KeyLen - 1, TRUE)
NonHexKey == Key("nonhex", KeyLen, FALSE)

\* an X-Timestamp header: absent, "", "abc" (junk), "<t>" (int) or "<t>abc" (intjunk)
Ts(kind, t) == [kind |-> kind, t |-> t]
NoTs == Ts("absent", 0)

\* SECURITY_CONFIG.allowedOrigins, the default
allowedOrigins == {"http://localhost:3000", "http://localhost:5173"}

Req(method, path, origin, apiKey, ip, ts, body, query) ==
    [method |-> method, path |-> path, origin |-> origin, apiKey |-> apiKey, ip |-> ip,
     ts |-> ts, body |-> body, query |-> query]

(***************************************************************************)
(* The gate of app.js                                                      *)
(***************************************************************************)
\* the origin callback of cors(): TRUE when the request is let through
corsAllows(origin) == origin = "" \/ origin \in allowedOrigins

CorsError == Rsp(403, "Forbidden", "CORS_ERROR", {}, "", "")

\* keyGenerator as a limiter keyed by the caller address alone would have it
keyGeneratorIp(req) == req.ip

\* keyGenerator: req.headers['x-api-key'] || req.ip
keyGenerator(req) == IF req.apiKey.text # "" THEN req.apiKey.text ELSE req.ip

\* app.use('/analyze', limiter) and the two others: app.use matches the paths below its
\* mount path too
limited(path) == path \in {"/analyze", "/batch-analyze", "/analyze-image", "/analyze/x"}

\* the limiter's verdict on the request that raised its identity's counter to `current`
overLimit(current) == current > RateMax

RateLimited == Rsp(429, "Too many requests", "", {}, "", "")

\* /^[a-f0-9]{64}$/i.test(apiKey)
keyFormatOk(k) == k.len = KeyLen /\ k.hex

\* the X-Timestamp check with Number(timestamp) in place of parseInt(timestamp)
timestampRejectedStrict(ts, currentTime) ==
    /\ ts.kind \notin {"absent", "empty"}
    /\ \/ ts.kind \in {"junk", "intjunk"}
       \/ currentTime - ts.t > MaxAgeMin
       \/ ts.t > currentTime

\* the X-Timestamp check: TRUE when the request is rejected
timestampRejected(ts, currentTime) ==
    /\ ts.kind \notin {"absent", "empty"}
    /\ \/ ts.kind = "junk"
       \/ currentTime - ts.t > MaxAgeMin
       \/ ts.t > currentTime

\* authenticateApiKey without its first lines, the skip of /health and /
authenticateNoSkip(req, currentTime) ==
    IF req.apiKey.text = ""
         THEN Rsp(401, "Unauthorized", "MISSING_API_KEY", {}, "", "")
    ELSE IF ~keyFormatOk(req.apiKey)
         THEN Rsp(401, "Unauthorized", "INVALID_API_KEY_FORMAT", {}, "", "")
    ELSE IF apiKeys # {} /\ req.apiKey.text \notin apiKeys
         THEN Rsp(401, "Unauthorized", "INVALID_API_KEY", {}, "", "")
    ELSE IF timestampRejected(req.ts, currentTime)
         THEN Rsp(400, "Bad Request", "INVALID_TIMESTAMP", {}, "", "")
    ELSE NoRsp

\* authenticateApiKey: the response it sends, NoRsp when it calls next()
authenticateApiKey(req, currentTime) ==
    IF req.path \in {"/health", "/"} THEN NoRsp
    ELSE IF req.apiKey.text = ""
         THEN Rsp(401, "Unauthorized", "MISSING_API_KEY", {}, "", "")
    ELSE IF ~keyFormatOk(req.apiKey)
         THEN Rsp(401, "Unauthorized", "INVALID_API_KEY_FORMAT", {}, "", "")
    ELSE IF apiKeys # {} /\ req.apiKey.text \notin apiKeys
         THEN Rsp(401, "Unauthorized", "INVALID_API_KEY", {}, "", "")
    ELSE IF timestampRejected(req.ts, currentTime)
         THEN Rsp(400, "Bad Request", "INVALID_TIMESTAMP", {}, "", "")
    ELSE NoRsp

(***************************************************************************)
(* Handlers: the part that runs before the provider is called              *)
(***************************************************************************)
\* validateInput without the return before res.status(400): the 400 is sent and next() runs
validateInputNoReturn(error, next) ==
    IF error # NoError
    THEN [next EXCEPT !.rsp = Rsp(400, "Validation Error", "INVALID_INPUT", {error.field}, "", "")]
    ELSE next

\* validateInput(schema): 400 on a schema error, else next()
validateInput(error, next) ==
    IF error # NoError
    THEN Respond(Rsp(400, "Validation Error", "INVALID_INPUT", {error.field}, "", ""))
    ELSE next

\* the catch-all without path: req.originalUrl in its body
NotFoundBare(req) == Rsp(404, "Not Found", "", {}, "", "")
\* app.use('*', ...): { error: 'Not Found', message, path: req.originalUrl }
NotFound(req) == Rsp(404, "Not Found", "", {}, "", req.path)
MethodNotAllowed == Rsp(405, "Method not allowed", "", {}, "", "")
ServerError == Rsp(500, "Internal Server Error", "SERVER_ERROR", {}, "", "")

\* a JavaScript string is truthy: present and not empty
Truthy(o, f) == Has(o, f) /\ o[f] # ""
\* the same of a URL text
TruthyUrl(o, f) == Has(o, f) /\ o[f] # EmptyUrl

\* POST /analyze of app.js and part_000, after validateInput
analyzeHandler(body) ==
    IF Str(body, "analysis_type") = "ai_vision_tagging" /\ ~Has(body, "tags")
    THEN Respond(ServerError)
    ELSE CallProvider(Str(body, "analysis_type"),
                      Payload(body, analyzeParameters(body)))

\* POST /batch-analyze of app.js, after validateInput: it reads the camelCase fields
batchHandler(body) ==
    IF Str(body, "analysisType") \notin AnalysisTypes
    THEN Respond(Rsp(400, "Invalid analysis type", "INVALID_ANALYSIS_TYPE", {}, "", ""))
    ELSE IF body.analysisType = "ai_vision_tagging" /\ ~Has(body, "analysisData")
    THEN Respond(ServerError)
    ELSE CallProvider(body.analysisType, Payload(body, batchParameters(body)))

\* GET /analyze-image of app.js (withCode) and of part_001
legacyHandler(query, withCode) ==
    IF ~TruthyUrl(query, "imageUrl") \/ ~Truthy(query, "appKey")
    THEN Respond(Rsp(400, "Missing required parameters",
                     IF withCode THEN "MISSING_PARAMETERS" ELSE "", {"imageUrl", "appKey"}, "", ""))
    ELSE IF ~(UrlParses(query.imageUrl) /\ HttpPrefix(query.imageUrl))
    THEN Respond(Rsp(400, "Invalid image URL", IF withCode THEN "INVALID_URL" ELSE "", {}, "", ""))
    ELSE IF legacyType(query.appKey) = ""
    THEN Respond(Rsp(400, "Invalid app key", IF withCode THEN "INVALID_APP_KEY" ELSE "", {}, "", ""))
    ELSE CallProvider(legacyType(query.appKey),
                      Payload(query, legacyParameters(query.appKey)))

\* api/analyze.js up to the provider call
fnAnalyze(req) ==
    IF req.method # "POST" THEN Respond(MethodNotAllowed)
    ELSE IF ~TruthyUrl(req.body, "imageUrl") \/ ~Truthy(req.body, "analysis_type")
    THEN Respond(Rsp(400, "Missing required parameters", "", {"imageUrl", "analysis_type"}, "", ""))
    ELSE IF req.body.analysis_type \notin AnalysisTypes
    THEN Respond(Rsp(400, "Invalid analysis type", "", {"analysis_type"}, "", ""))
    ELSE CallProvider(req.body.analysis_type,
                      Payload(req.body, fnAnalyzeParameters(req.body)))

\* api/batch-analyze.js up to the provider call
fnBatchAnalyze(req) ==
    IF req.method # "POST" THEN Respond(MethodNotAllowed)
    ELSE IF ~TruthyUrl(req.body, "imageUrl") \/ ~Truthy(req.body, "analysisType")
            \/ ~Has(req.body, "analysisData")
    THEN Respond(Rsp(400, "Missing required parameters", "",
                     {"imageUrl", "analysisType", "analysisData"}, "", ""))
    ELSE IF req.body.analysisType \notin AnalysisTypes
    THEN Respond(Rsp(400, "Invalid analysis type", "", {"analysisType"}, "", ""))
    ELSE CallProvider(req.body.analysisType,
                      Payload(req.body, batchParameters(req.body)))

\* the health function of part_001
fnHealth(req) ==
    IF req.method # "GET" THEN Respond(MethodNotAllowed)
    ELSE Respond(Rsp(200, "", "", {}, "", "healthy"))

\* the routes of app.js, reached after the gate
securedRoutes(req) ==
    CASE req.method = "GET" /\ req.path = "/health" -> Respond(Rsp(200, "", "", {}, "", "healthy"))
      [] req.method = "GET" /\ req.path = "/" -> Respond(Rsp(302, "", "", {}, "", "/general.html"))
      [] req.method = "POST" /\ req.path = "/analyze" ->
           validateInput(analyzeSchema(req.body, TRUE), analyzeHandler(req.body))
      [] req.method = "POST" /\ req.path = "/batch-analyze" ->
           validateInput(analyzeSchema(req.body, TRUE), batchHandler(req.body))
      [] req.method = "GET" /\ req.path = "/analyze-image" -> legacyHandler(req.query, TRUE)
      [] OTHER -> Respond(NotFound(req))

\* the routes of part_000
expressRoutes(req) ==
    CASE req.method = "GET" /\ req.path = "/health" -> Respond(Rsp(200, "", "", {}, "", "healthy"))
      [] req.method = "GET" /\ req.path = "/" -> Respond(Rsp(302, "", "", {}, "", "/general.html"))
      [] req.method = "POST" /\ req.path = "/analyze" ->
           validateInput(analyzeSchema(req.body, FALSE), analyzeHandler(req.body))
      [] OTHER -> Respond(NotFound(req))

\* the functions of the serverless deployment, one per path
FnPaths == {"/analyze", "/batch-analyze", "/analyze-image", "/health"}

serverlessRoutes(req) ==
    CASE req.path = "/analyze" -> fnAnalyze(req)
      [] req.path = "/batch-analyze" -> fnBatchAnalyze(req)
      [] req.path = "/analyze-image" ->
           IF req.method # "GET" THEN Respond(MethodNotAllowed)
           ELSE legacyHandler(req.query, FALSE)
      [] OTHER -> fnHealth(req)

(***************************************************************************)
(* The provider's answers and what the handlers make of them               *)
(***************************************************************************)
\* how axios.post to the provider ends: resolved, or rejected with an error
Outcome(ok, code, hasResponse, data, message) ==
    [ok |-> ok, code |-> code, hasResponse |-> hasResponse, data |-> data, message |-> message]
OkResult == Outcome(TRUE, "", TRUE, "RESULT", "")
Timeout == Outcome(FALSE, "ECONNABORTED", FALSE, "", "timeout of 30000ms exceeded")
HttpError == Outcome(FALSE, "ERR_BAD_RESPONSE", TRUE, "PROVIDER_ERROR",
                     "Request failed with status code 400")
NetError == Outcome(FALSE, "ENOTFOUND", FALSE, "", "getaddrinfo ENOTFOUND")
Outcomes == {OkResult, Timeout, HttpError, NetError}

\* res.json(analysisResult.data)
Success(o) == Rsp(200, "", "", {}, "", o.data)

\* error.response ? error.response.data : error.message
errorDetails(o) == IF o.hasResponse THEN o.data ELSE o.message

\* the .then/.catch of POST /analyze in app.js
securedAnalyzeReply(o) ==
    IF o.ok THEN Success(o)
    ELSE IF o.code = "ECONNABORTED" THEN Rsp(408, "Request Timeout", "", {}, "", "")
    ELSE Rsp(500, "Analysis failed", "ANALYSIS_ERROR", {}, "", "")

\* the .then/.catch of POST /batch-analyze in app.js
securedBatchReply(o) ==
    IF o.ok THEN Success(o)
    ELSE Rsp(500, "Analysis failed", "BATCH_ANALYSIS_ERROR", {}, o.message, "")

\* the .then/.catch of GET /analyze-image in app.js
securedLegacyReply(o) ==
    IF o.ok THEN Success(o)
    ELSE Rsp(500, "Analysis failed", "LEGACY_ANALYSIS_ERROR", {}, o.message, "")

\* the try/catch of POST /analyze in part_000
expressAnalyzeReply(o) ==
    IF o.ok THEN Success(o)
    ELSE Rsp(500, "Analysis failed", "ANALYSIS_ERROR", {}, "", "")

\* the catch of the three serverless functions
fnReply(o) ==
    IF o.ok THEN Success(o)
    ELSE IF o.code = "ECONNABORTED" THEN Rsp(408, "Request Timeout", "", {}, "", "")
    ELSE Rsp(500, "Analysis failed", "", {}, errorDetails(o), "")

\* the response the handler of `path` sends for the provider's answer
providerReply(v, path, o) ==
    CASE v = "secured" /\ path = "/analyze" -> securedAnalyzeReply(o)
      [] v = "secured" /\ path = "/batch-analyze" -> securedBatchReply(o)
      [] v = "secured" /\ path = "/analyze-image" -> securedLegacyReply(o)
      [] v = "express" -> expressAnalyzeReply(o)
      [] OTHER -> fnReply(o)

\* if (process.env.ZAPIER_WEBHOOK_URL): only the /analyze handlers of app.js and analyze.js
\* hold the webhook code
postsWebhook(v, path, configured) ==
    configured /\ path = "/analyze" /\ v \in {"secured", "serverless"}

\* analyze.js awaits the webhook POST before it responds; app.js does not
awaitsWebhook(v) == v = "serverless"

(***************************************************************************)
(* The requests the clients send, by family.  A family is a list; a        *)
(* timestamp header is written by the client `age` minutes before the      *)
(* request arrives (a negative age: the client's clock runs ahead).        *)
(***************************************************************************)
Tag1 == [name |-> "cat", description |-> "a cat"]
Tag2 == [name |-> "dog", description |-> "a dog"]
TagExtra == [name |-> "cat", description |-> "a cat", color |-> "red"]
TagMarkup == [name |-> "<b>", description |-> "a cat"]

GeneralBody == [imageUrl |-> GoodUrl, analysis_type |-> "ai_vision_general", prompts |-> <<"a", "b">>]
ModerationBody ==
    [imageUrl |-> GoodUrl, analysis_type |-> "ai_vision_moderation", prompts |-> <<"is it safe?">>]
TaggingBody ==
    [imageUrl |-> HttpUrl, analysis_type |-> "ai_vision_tagging", tags |-> <<Tag1, Tag2>>,
     multi_label |-> TRUE]
BatchGeneral ==
    [imageUrl |-> GoodUrl, analysisType |-> "ai_vision_general", analysisData |-> <<"a", "b">>]
BatchModeration ==
    [imageUrl |-> GoodUrl, analysisType |-> "ai_vision_moderation", analysisData |-> <<"b", "b">>,
     multiLabel |-> TRUE]
BatchTagging ==
    [imageUrl |-> HttpUrl, analysisType |-> "ai_vision_tagging", analysisData |-> <<Tag2, Tag1>>,
     multiLabel |-> FALSE]

\* body without field f
Without(body, f) == [g \in DOMAIN body \ {f} |-> body[g]]
\* body with field f set to v
With(body, f, v) == [g \in DOMAIN body \cup {f} |-> IF g = f THEN v ELSE body[g]]

Repeat(x, n) == [i \in 1..n |-> x]

Post(path, origin, apiKey, ip, ts, body) == Req("POST", path, origin, apiKey, ip, ts, body, Obj0)
Get(path, origin, apiKey, ip, ts, query) == Req("GET", path, origin, apiKey, ip, ts, Obj0, query)
\* a request that passes the gate
PostOk(path, body) == Post(path, "", K1, "ip1", NoTs, body)
GetOk(path, query) == Get(path, "", K1, "ip1", NoTs, query)
Query(url, appKey) == [imageUrl |-> url, appKey |-> appKey]

EvilOrigin == "http://evil.example"
GoodOrigin == "http://localhost:3000"

AuthFamily(t) ==
    LET stale == Ts("int", t - (MaxAgeMin + 1)) IN
    << Post("/analyze", "", NoKey, "ip1", NoTs, GeneralBody),
       Post("/analyze", "", NoKey, "ip1", stale, GeneralBody),
       Post("/analyze", "", K1, "ip1", NoTs, GeneralBody),
       Post("/analyze", "", K1, "ip1", stale, GeneralBody),
       Post("/analyze", "", K1, "ip1", Ts("int", t), Without(GeneralBody, "prompts")),
       Get("/analyze-image", "", NoKey, "ip1", NoTs, Query(GoodUrl, "fGr3Ase")),
       Get("/analyze-image", "", K1, "ip1", Ts("junk", 0), Query(GoodUrl, "fGr3Ase")) >>

\* keys of the wrong shape and keys that are not configured
BadKeyFamily(t) ==
    LET stale == Ts("int", t - (MaxAgeMin + 1)) IN
    << Post("/analyze", "", NonHexKey, "ip1", NoTs, GeneralBody),
       Post("/analyze", "", NonHexKey, "ip1", stale, GeneralBody),
       Post("/analyze", "", K3, "ip1", NoTs, GeneralBody),
       Post("/analyze", "", K3, "ip1", stale, GeneralBody) >>

\* clients without key, told apart by their address
AddressFamily(t) ==
    << Post("/analyze", "", NoKey, "ip1", NoTs, GeneralBody),
       Post("/analyze", "", NoKey, "ip2", NoTs, GeneralBody) >>

RateFamily(t) ==
    << Post("/analyze", "", K1, "ip1", NoTs, GeneralBody),
       Post("/analyze", "", K2, "ip1", NoTs, GeneralBody),
       Post("/batch-analyze", "", K1, "ip2", NoTs, BatchGeneral),
       Get("/analyze-image", "", K2, "ip1", NoTs, Query(GoodUrl, "88330fgvv")),
       Post("/analyze", EvilOrigin, K1, "ip1", NoTs, GeneralBody),
       Get("/health", "", K1, "ip1", NoTs, Obj0) >>

OpenFamily(t) ==
    LET stale == Ts("int", t - (MaxAgeMin + 1)) IN
    << Get("/health", "", NoKey, "ip1", NoTs, Obj0),
       Get("/health", "", K1, "ip1", stale, Obj0),
       Get("/health", "", NonHexKey, "ip1", NoTs, Obj0),
       Get("/health", GoodOrigin, K1, "ip1", NoTs, Obj0),
       Get("/health", EvilOrigin, K1, "ip1", NoTs, Obj0),
       Get("/health", EvilOrigin, NoKey, "ip1", NoTs, Obj0),
       Get("/", "", NoKey, "ip1", NoTs, Obj0),
       Get("/", "", K3, "ip1", stale, Obj0),
       Get("/", GoodOrigin, NoKey, "ip1", NoTs, Obj0),
       Get("/", EvilOrigin, K1, "ip1", NoTs, Obj0),
       Post("/health", "", NoKey, "ip1", NoTs, Obj0),
       Get("/nowhere", "", K1, "ip1", NoTs, Obj0),
       Get("/nowhere", "", NoKey, "ip1", NoTs, Obj0),
       Get("/nowhere", EvilOrigin, K1, "ip1", NoTs, Obj0),
       Get("/analyze/x", "", K1, "ip1", NoTs, Obj0),
       Post("/analyze", "", K1, "ip1", NoTs, GeneralBody),
       Post("/analyze", "", NoKey, "ip1", NoTs, GeneralBody) >>

TsFamily(t) ==
    << Post("/analyze", "", K1, "ip1", NoTs, GeneralBody),
       Post("/analyze", "", K1, "ip1", Ts("empty", 0), GeneralBody),
       Post("/analyze", "", K1, "ip1", Ts("junk", 0), GeneralBody),
       Post("/analyze", "", K1, "ip1", Ts("int", t), GeneralBody),
       Post("/analyze", "", K1, "ip1", Ts("int", t - MaxAgeMin), GeneralBody),
       Post("/analyze", "", K1, "ip1", Ts("int", t - (MaxAgeMin + 1)), GeneralBody),
       Post("/analyze", "", K1, "ip1", Ts("int", t + 1), GeneralBody),
       Post("/analyze", "", K1, "ip1", Ts("intjunk", t), GeneralBody),
       Post("/analyze", "", ShortKey, "ip1", Ts("int", t), GeneralBody) >>

BodyFamily ==
    << PostOk("/analyze", GeneralBody),
       PostOk("/analyze", With(With(GeneralBody, "prompts", <<"b", "a", "b">>), "multi_label", TRUE)),
       PostOk("/analyze", ModerationBody),
       PostOk("/analyze", With(ModerationBody, "multi_label", FALSE)),
       PostOk("/analyze", TaggingBody),
       PostOk("/analyze", Without(With(TaggingBody, "tags", <<Tag2>>), "multi_label")),
       PostOk("/analyze", With(TaggingBody, "tags", <<TagExtra, Tag2>>)),
       PostOk("/analyze", With(TaggingBody, "tags", <<TagMarkup>>)),
       PostOk("/analyze", Without(GeneralBody, "prompts")),
       PostOk("/analyze", With(ModerationBody, "prompts", <<>>)),
       PostOk("/analyze", Without(TaggingBody, "tags")),
       PostOk("/analyze", With(TaggingBody, "tags", <<>>)),
       PostOk("/analyze", With(GeneralBody, "analysis_type", "ai_vision_other")),
       PostOk("/analyze", Without(GeneralBody, "analysis_type")),
       PostOk("/analyze", Without(GeneralBody, "imageUrl")),
       PostOk("/analyze", With(GeneralBody, "imageUrl", EmptyUrl)),
       PostOk("/analyze", With(GeneralBody, "imageUrl", LoopbackUrl)),
       PostOk("/analyze", With(GeneralBody, "imageUrl", PrivateUrl)),
       PostOk("/analyze", With(GeneralBody, "imageUrl", FtpUrl)),
       PostOk("/analyze", With(GeneralBody, "imageUrl", RelativeUrl)),
       PostOk("/analyze", With(ModerationBody, "imageUrl", DataPathUrl)),
       PostOk("/analyze", With(GeneralBody, "prompts", Repeat("a", MaxPrompts))),
       PostOk("/analyze", With(GeneralBody, "prompts", Repeat("a", MaxPrompts + 1))),
       PostOk("/analyze", With(GeneralBody, "prompts", <<"a", "x1001">>)),
       GetOk("/analyze", Obj0) >>

BatchFamily ==
    << PostOk("/batch-analyze", BatchGeneral),
       PostOk("/batch-analyze", BatchModeration),
       PostOk("/batch-analyze", BatchTagging),
       PostOk("/batch-analyze", Without(BatchTagging, "multiLabel")),
       PostOk("/batch-analyze", With(BatchGeneral, "analysisType", "ai_vision_other")),
       PostOk("/batch-analyze", Without(BatchGeneral, "analysisData")),
       PostOk("/batch-analyze", Without(BatchGeneral, "imageUrl")),
       PostOk("/batch-analyze", With(BatchGeneral, "imageUrl", FileUrl)),
       PostOk("/batch-analyze", GeneralBody),
       PostOk("/batch-analyze", TaggingBody),
       GetOk("/batch-analyze", Obj0) >>

LegacyFamily ==
    << GetOk("/analyze-image", Query(GoodUrl, "fGr3Ase")),
       GetOk("/analyze-image", Query(HttpUrl, "88330fgvv")),
       GetOk("/analyze-image", Query(GoodUrl, "gie3faavv3r1")),
       GetOk("/analyze-image", Query(GoodUrl, "fgr3ase")),
       GetOk("/analyze-image", Query(GoodUrl, "")),
       GetOk("/analyze-image", Without(Query(GoodUrl, "fGr3Ase"), "imageUrl")),
       GetOk("/analyze-image", Without(Query(GoodUrl, "fGr3Ase"), "appKey")),
       GetOk("/analyze-image", Query(FtpUrl, "fGr3Ase")),
       GetOk("/analyze-image", Query(RelativeUrl, "88330fgvv")),
       GetOk("/analyze-image", Query(FileUrl, "fGr3Ase")),
       GetOk("/analyze-image", Query(LoopbackUrl, "fGr3Ase")),
       GetOk("/analyze-image", Query(PrivateUrl, "gie3faavv3r1")),
       PostOk("/analyze-image", Obj0) >>

UpstreamFamily ==
    << PostOk("/analyze", GeneralBody),
       PostOk("/analyze", TaggingBody),
       PostOk("/analyze", Without(GeneralBody, "analysis_type")),
       PostOk("/batch-analyze", BatchGeneral),
       GetOk("/analyze-image", Query(GoodUrl, "fGr3Ase")) >>

\* requests that are in flight together
ConcurrentFamily ==
    << PostOk("/analyze", GeneralBody),
       GetOk("/analyze-image", Query(GoodUrl, "88330fgvv")) >>

Families ==
    {"auth", "badkey", "rate", "address", "open", "ts", "body", "batch", "legacy", "upstream",
     "concurrent"}
GateFamilies == {"auth", "badkey", "rate", "address", "open", "ts"}

Pool(f, t) ==
    CASE f = "auth" -> AuthFamily(t)
      [] f = "badkey" -> BadKeyFamily(t)
      [] f = "rate" -> RateFamily(t)
      [] f = "address" -> AddressFamily(t)
      [] f = "open" -> OpenFamily(t)
      [] f = "ts" -> TsFamily(t)
      [] f = "body" -> BodyFamily
      [] f = "batch" -> BatchFamily
      [] f = "legacy" -> LegacyFamily
      [] f = "upstream" -> UpstreamFamily
      [] OTHER -> ConcurrentFamily

\* how many requests of a family are in flight at the same time
Cap(f) == IF f = "concurrent" THEN MaxInFlight ELSE 1

(***************************************************************************)
(* The state machine                                                       *)
(***************************************************************************)
Identities == {"k1", "k2", "k3", "short", "nonhex", "ip1", "ip2"}

NoReq == Req("", "", "", NoKey, "", NoTs, Obj0, Obj0)
NoOutcome == Outcome(FALSE, "", FALSE, "", "")

\* pc: idle, upstream (the provider call is pending), webhook (the awaited webhook POST is
\* pending), done (the response is sent).  sent: responses sent.  calls: provider calls made.
\* hook: none, pending, ok, failed.  at: Date.now() when a request with X-Timestamp arrived.
\* current: req.rateLimit.current, 0 when the limiter did not count the request.
\* nth (history): the place of the request among the counted requests its client identity
\* sent in the window, 0 when not counted.
Idle ==
    [pc |-> "idle", req |-> NoReq, rsp |-> NoRsp, sent |-> 0, calls |-> 0, endpoint |-> "",
     payload |-> Obj0, hook |-> "none", result |-> NoOutcome, at |-> 0, current |-> 0,
     nth |-> 0]

\* the chain with app.use(authenticateApiKey) placed before the limiter
securedAppAuthFirst(req, current, currentTime) ==
    IF ~corsAllows(req.origin) THEN Respond(CorsError)
    ELSE IF authenticateApiKey(req, currentTime) # NoRsp
         THEN Respond(authenticateApiKey(req, currentTime))
    ELSE IF limited(req.path) /\ overLimit(current) THEN Respond(RateLimited)
    ELSE securedRoutes(req)

\* the middleware chain of app.js in the order of its app.use calls: cors, limiter,
\* authenticateApiKey, then the routes
securedApp(req, current, currentTime) ==
    IF ~corsAllows(req.origin) THEN Respond(CorsError)
    ELSE IF limited(req.path) /\ overLimit(current) THEN Respond(RateLimited)
    ELSE IF authenticateApiKey(req, currentTime) # NoRsp
         THEN Respond(authenticateApiKey(req, currentTime))
    ELSE securedRoutes(req)

\* what the deployment does with a request up to its response or its provider call
app(v, req, current, currentTime) ==
    CASE v = "secured" -> securedApp(req, current, currentTime)
      [] v = "express" -> expressRoutes(req)
      [] OTHER -> serverlessRoutes(req)

\* the limiter counts the request: it got past cors and its path is rate-limited
counted(v, req) == v = "secured" /\ corsAllows(req.origin) /\ limited(req.path)

\* the client identity of a request: its X-API-Key when it sends one, else its address
Identity(req) == IF req.apiKey # NoKey THEN req.apiKey.text ELSE req.ip

\* the request in flight once the synchronous part of its handling has run
started(req, plan) ==
    [Idle EXCEPT !.pc = IF plan.call THEN "upstream" ELSE "done",
                 !.req = req,
                 !.rsp = plan.rsp,
                 !.sent = IF plan.rsp # NoRsp THEN 1 ELSE 0,
                 !.calls = IF plan.call THEN 1 ELSE 0,
                 !.endpoint = plan.endpoint,
                 !.payload = plan.payload]

\* the handler with a second attempt after a failed provider call
repliedRetry(sl, o, rsp, posts, awaits) ==
    IF posts /\ awaits
    THEN [sl EXCEPT !.pc = "webhook", !.result = o, !.hook = "pending"]
    ELSE [sl EXCEPT !.pc = "done", !.result = o, !.rsp = rsp, !.sent = sl.sent + 1,
                    !.calls = IF o.ok THEN sl.calls ELSE sl.calls + 1,
                    !.hook = IF posts THEN "pending" ELSE "none"]

\* the request once the provider has answered with o
replied(sl, o, rsp, posts, awaits) ==
    IF posts /\ awaits
    THEN [sl EXCEPT !.pc = "webhook", !.result = o, !.hook = "pending"]
    ELSE [sl EXCEPT !.pc = "done", !.result = o, !.rsp = rsp, !.sent = sl.sent + 1,
                    !.hook = IF posts THEN "pending" ELSE "none"]

\* analyze.js without the try/catch around the webhook POST: its failure reaches the outer catch
hookedUncaught(sl, ok) ==
    IF sl.pc = "webhook"
    THEN [sl EXCEPT !.pc = "done",
                    !.rsp = IF ok THEN Success(sl.result)
                            ELSE Rsp(500, "Analysis failed", "", {}, "webhook failed", ""),
                    !.sent = sl.sent + 1,
                    !.hook = IF ok THEN "ok" ELSE "failed"]
    ELSE [sl EXCEPT !.hook = IF ok THEN "ok" ELSE "failed"]

\* the request once its webhook POST has ended: analyze.js responds now, app.js has responded
hooked(sl, ok) ==
    IF sl.pc = "webhook"
    THEN [sl EXCEPT !.pc = "done", !.rsp = Success(sl.result), !.sent = sl.sent + 1,
                    !.hook = IF ok THEN "ok" ELSE "failed"]
    ELSE [sl EXCEPT !.hook = IF ok THEN "ok" ELSE "failed"]

Busy == Cardinality({s \in Slots : slot[s].pc # "idle"})

Init ==
    /\ variant \in Variants
    /\ family \in Families
    /\ family \in GateFamilies => variant = "secured"
    /\ apiKeys \in {{}, {"k1", "k2"}}
    /\ variant # "secured" => apiKeys = {}
    /\ variant = "secured" /\ apiKeys = {} => family \in {"auth", "badkey"}
    /\ webhookUrl \in BOOLEAN
    /\ webhookUrl => family \in {"upstream", "concurrent"}
    /\ now = 0
    /\ hits = [i \in Identities |-> 0]
    /\ windowStart = [i \in Identities |-> 0]
    /\ seen = [i \in Identities |-> 0]
    /\ slot = [s \in Slots |-> Idle]

\* a request arrives and is handled up to its response or its provider call
Receive(s) ==
    /\ slot[s].pc = "idle"
    /\ \A s2 \in 1..(s - 1) : slot[s2].pc # "idle"
    /\ Busy < Cap(family)
    /\ \E i \in 1..Len(Pool(family, now)) :
         LET req == Pool(family, now)[i]
             id == keyGenerator(req)
             cnt == counted(variant, req)
             current == IF cnt THEN hits[id] + 1 ELSE 0
         IN /\ variant = "serverless" => req.path \in FnPaths
            /\ cnt => hits[id] < RateMax + MaxOver
            /\ hits' = IF cnt THEN [hits EXCEPT ![id] = current] ELSE hits
            /\ windowStart' = IF cnt /\ hits[id] = 0
                              THEN [windowStart EXCEPT ![id] = now] ELSE windowStart
            /\ seen' = IF cnt
                       THEN [seen EXCEPT ![Identity(req)] = @ + 1] ELSE seen
            /\ slot' = [slot EXCEPT ![s] =
                           [started(req, app(variant, req, current, now))
                              EXCEPT !.at = IF req.ts = NoTs THEN 0 ELSE now, !.current = current,
                                     !.nth = IF cnt THEN seen[Identity(req)] + 1 ELSE 0]]
    /\ UNCHANGED <<variant, apiKeys, webhookUrl, family, now>>

\* the provider call of a request ends; the handler responds, or awaits the webhook
ProviderReply(s) ==
    /\ slot[s].pc = "upstream"
    /\ \E o \in Outcomes :
         slot' = [slot EXCEPT ![s] =
                    replied(slot[s], o, providerReply(variant, slot[s].req.path, o),
                            o.ok /\ postsWebhook(variant, slot[s].req.path, webhookUrl),
                            awaitsWebhook(variant))]
    /\ UNCHANGED <<variant, apiKeys, webhookUrl, family, now, hits, windowStart, seen>>

\* the webhook POST of a request ends, well or not
WebhookReply(s) ==
    /\ slot[s].hook = "pending"
    /\ \E ok \in BOOLEAN : slot' = [slot EXCEPT ![s] = hooked(slot[s], ok)]
    /\ UNCHANGED <<variant, apiKeys, webhookUrl, family, now, hits, windowStart, seen>>

\* the exchange is over
Close(s) ==
    /\ slot[s].pc = "done"
    /\ slot[s].hook # "pending"
    /\ slot' = [slot EXCEPT ![s] = Idle]
    /\ UNCHANGED <<variant, apiKeys, webhookUrl, family, now, hits, windowStart, seen>>

\* The store of the limiter is the rate-limit package's, whose code is not in the
\* repository's files; it is modelled from the specification: "per-identity counter +
\* window-start timestamp; reset when window elapses".
\* the window of a key that started at `start` has elapsed at minute t
elapsed(h, start, t) == h > 0 /\ t - start >= WindowMin

\* a store that clears every counter as soon as the window of one key has elapsed
windowResetAll(h, start, t) ==
    IF \E i \in Identities : elapsed(h[i], start[i], t) THEN [i \in Identities |-> 0] ELSE h

\* the counters of the store once the clock has reached minute t
windowReset(h, start, t) ==
    [i \in Identities |-> IF elapsed(h[i], start[i], t) THEN 0 ELSE h[i]]

\* the window starts of the store once the clock has reached minute t
windowStarts(h, start, t) ==
    [i \in Identities |-> IF windowReset(h, start, t)[i] = 0 THEN 0 ELSE start[i]]

\* a minute passes
Tick ==
    /\ now < MaxTime
    /\ now' = now + 1
    /\ hits' = windowReset(hits, windowStart, now + 1)
    /\ windowStart' = windowStarts(hits, windowStart, now + 1)
    /\ seen' = [i \in Identities |->
                 IF now + 1 - windowStart[i] >= WindowMin THEN 0 ELSE seen[i]]
    /\ UNCHANGED <<variant, apiKeys, webhookUrl, family, slot>>

Next ==
    \/ \E s \in Slots : Receive(s)
    \/ \E s \in Slots : ProviderReply(s)
    \/ \E s \in Slots : WebhookReply(s)
    \/ \E s \in Slots : Close(s)
    \/ Tick

Spec == Init /\ [][Next]_vars

\* the provider call carries timeout: 30000, so it ends; the webhook POST carries no timeout
\* and the clients owe the app no request, so nothing else is promised to happen
LiveSpec == Spec /\ \A s \in Slots : WF_vars(ProviderReply(s))

(***************************************************************************)
(* The claims                                                              *)
(***************************************************************************)
InFlight(s) == slot[s].pc # "idle"
Done(s) == slot[s].pc = "done"

OriginOk(req) == req.origin = "" \/ req.origin \in allowedOrigins
KeyMissing(req) == req.apiKey = NoKey
KeyMalformed(req) == ~(req.apiKey.len = KeyLen /\ req.apiKey.hex)
KeyUnknown(req) == apiKeys # {} /\ req.apiKey.text \notin apiKeys
\* the X-Timestamp of the request in slot sl fails the freshness check at its arrival
TsBad(sl) ==
    /\ sl.req.ts.kind \notin {"absent", "empty"}
    /\ \/ sl.req.ts.kind = "junk"
       \/ ~(0 <= sl.at - sl.req.ts.t /\ sl.at - sl.req.ts.t <= MaxAgeMin)
\* the request is beyond the limit of its client identity in the window
OverQuota(sl) == sl.nth > RateMax
AnalysisRoute(req) == req.path \in {"/analyze", "/batch-analyze", "/analyze-image"}
Is(rsp, status, code) == rsp.status = status /\ rsp.code = code

\* the request in slot sl got past the gate (a deployment without gate lets everything past)
GatePassed(sl) ==
    variant = "secured" =>
        /\ OriginOk(sl.req)
        /\ AnalysisRoute(sl.req) => ~OverQuota(sl)
        /\ sl.req.path \notin {"/health", "/"} =>
             ~(KeyMissing(sl.req) \/ KeyMalformed(sl.req) \/ KeyUnknown(sl.req) \/ TsBad(sl))

LegacyOk(q) ==
    /\ TruthyUrl(q, "imageUrl") /\ Truthy(q, "appKey")
    /\ q.imageUrl.scheme \in {"http", "https"} /\ q.imageUrl.host # ""
    /\ q.appKey \in {"fGr3Ase", "88330fgvv", "gie3faavv3r1"}

\* the request passes the input checks of the handler of its route
InputOk(req) ==
    CASE variant \in {"secured", "express"} /\ req.method = "POST" /\ req.path = "/analyze" ->
           analyzeSchema(req.body, variant = "secured") = NoError
      [] variant = "secured" /\ req.method = "POST" /\ req.path = "/batch-analyze" ->
           /\ analyzeSchema(req.body, TRUE) = NoError
           /\ Str(req.body, "analysisType") \in AnalysisTypes
      [] variant \in {"secured", "serverless"} /\ req.method = "GET"
         /\ req.path = "/analyze-image" -> LegacyOk(req.query)
      [] variant = "serverless" /\ req.method = "POST" /\ req.path = "/analyze" ->
           /\ TruthyUrl(req.body, "imageUrl")
           /\ Str(req.body, "analysis_type") \in AnalysisTypes
      [] variant = "serverless" /\ req.method = "POST" /\ req.path = "/batch-analyze" ->
           /\ TruthyUrl(req.body, "imageUrl")
           /\ Str(req.body, "analysisType") \in AnalysisTypes
           /\ Has(req.body, "analysisData")
      [] OTHER -> FALSE

\* the verdict the gate gives when it runs its checks in the order `rateFirst` says
GateVerdictIs(sl, rateFirst) ==
    IF rateFirst /\ OverQuota(sl) THEN sl.rsp.status = 429
    ELSE IF KeyMissing(sl.req) THEN Is(sl.rsp, 401, "MISSING_API_KEY")
    ELSE IF KeyMalformed(sl.req) THEN Is(sl.rsp, 401, "INVALID_API_KEY_FORMAT")
    ELSE IF KeyUnknown(sl.req) THEN Is(sl.rsp, 401, "INVALID_API_KEY")
    ELSE IF TsBad(sl) THEN Is(sl.rsp, 400, "INVALID_TIMESTAMP")
    ELSE IF OverQuota(sl) THEN sl.rsp.status = 429
    ELSE sl.rsp.status \notin {401, 429} /\ sl.rsp.code # "INVALID_TIMESTAMP"

\* the requests the gate claims are about: secured deployment, analysis route, origin let through
Gated(s) ==
    InFlight(s) /\ variant = "secured" /\ AnalysisRoute(slot[s].req) /\ OriginOk(slot[s].req)

\* C1, as claimed: the gate checks key present, key format, key known, timestamp, rate, in
\* this order, and the first failing check decides the response; so a request with a missing,
\* malformed or unknown key never receives 429.
C1_KeyChecksBeforeRate == \A s \in Slots : Gated(s) => GateVerdictIs(slot[s], FALSE)

\* C1, amended: the gate checks the rate first, then key present, key format, key known,
\* timestamp; the first failing check in that order decides the response.
C1_RateBeforeKeyChecks == \A s \in Slots : Gated(s) => GateVerdictIs(slot[s], TRUE)

\* a request without key, with a malformed or with an unknown key was answered 429
C1_Witness ==
    \E s \in Slots :
        /\ Gated(s) /\ Done(s) /\ slot[s].rsp.status = 429
        /\ KeyMissing(slot[s].req) \/ KeyMalformed(slot[s].req) \/ KeyUnknown(slot[s].req)

\* C2: among the requests to the rate-limited routes a client identity (its X-API-Key, else
\* its address) sends within one window, exactly those after the RateMax-th are answered 429;
\* what other identities sent does not count.
C2_LimitPerIdentity ==
    \A s \in Slots :
        InFlight(s) /\ slot[s].nth > 0 => (slot[s].rsp.status = 429 <=> slot[s].nth > RateMax)

\* the first request of an identity was let through while another identity was over the limit
C2_Witness ==
    \E s \in Slots :
        /\ InFlight(s) /\ slot[s].nth = 1 /\ slot[s].rsp.status # 429
        /\ \E j \in Identities \ {Identity(slot[s].req)} : seen[j] > RateMax

\* C3: a provider call is made only for a request that got past the gate and the input
\* checks; a request answered with a rejection (400, 401, 403, 404, 405, 429) made none.
C3_NoCallWhenRejected ==
    \A s \in Slots :
        /\ slot[s].calls > 0 => GatePassed(slot[s]) /\ InputOk(slot[s].req)
        /\ slot[s].rsp.status \in {400, 401, 403, 404, 405, 429} => slot[s].calls = 0

\* a request to an analysis route was rejected by input validation and made no provider call
C3_Witness ==
    \E s \in Slots :
        /\ Done(s) /\ slot[s].calls = 0 /\ AnalysisRoute(slot[s].req)
        /\ \/ slot[s].rsp.code = "INVALID_INPUT"
           \/ slot[s].rsp.error = "Invalid analysis type"

OpenRoute(req) == req.method = "GET" /\ req.path \in {"/health", "/"}
OpenAnswer(sl) ==
    IF sl.req.path = "/health" THEN sl.rsp.status = 200 /\ sl.rsp.data = "healthy"
    ELSE sl.rsp.status = 302

\* C4, as claimed: in the secured deployment GET /health and GET / are answered 200 and 302
\* whatever the key, the timestamp, the Origin header and the counters are.
C4_OpenRoutesAlwaysAnswered ==
    \A s \in Slots :
        Done(s) /\ variant = "secured" /\ OpenRoute(slot[s].req) => OpenAnswer(slot[s])

\* C4, amended: GET /health and GET / are answered 200 and 302 whatever the key, the timestamp
\* and the counters are when the Origin header is absent or allowed; with another Origin they
\* are answered 403 CORS_ERROR.
C4_OpenRoutesBehindCors ==
    \A s \in Slots :
        Done(s) /\ variant = "secured" /\ OpenRoute(slot[s].req) =>
            IF OriginOk(slot[s].req) THEN OpenAnswer(slot[s])
            ELSE Is(slot[s].rsp, 403, "CORS_ERROR")

\* GET /health was answered 200 for a stale timestamp while its key was over the limit
C4_Witness ==
    \E s \in Slots :
        /\ Done(s) /\ variant = "secured" /\ slot[s].req.path = "/health"
        /\ slot[s].rsp.status = 200 /\ TsBad(slot[s])
        /\ hits[slot[s].req.apiKey.text] > RateMax

BatchField(type) ==
    CASE type = "ai_vision_general" -> "prompts"
      [] type = "ai_vision_moderation" -> "rejection_questions"
      [] OTHER -> "tag_definitions"

\* a body of POST /batch-analyze as its clients send it: camelCase, every field present
CamelBody(body) ==
    /\ TruthyUrl(body, "imageUrl") /\ JoiUri(body.imageUrl) /\ ~BlockedMatch(body.imageUrl)
    /\ Str(body, "analysisType") \in AnalysisTypes
    /\ Has(body, "analysisData") /\ Len(body.analysisData) > 0

\* C5, as claimed: in the secured and the serverless deployment a camelCase POST /batch-analyze
\* that got past the gate makes exactly one provider call, whose payload carries analysisData
\* as prompts, rejection_questions or tag_definitions according to analysisType.
C5_BatchForwarded ==
    \A s \in Slots :
        /\ InFlight(s) /\ variant \in {"secured", "serverless"}
        /\ slot[s].req.method = "POST" /\ slot[s].req.path = "/batch-analyze"
        /\ GatePassed(slot[s]) /\ CamelBody(slot[s].req.body)
        => /\ slot[s].calls = 1
           /\ slot[s].endpoint = slot[s].req.body.analysisType
           /\ slot[s].payload.source.uri = slot[s].req.body.imageUrl
           /\ Has(slot[s].payload, BatchField(slot[s].req.body.analysisType))
           /\ slot[s].payload[BatchField(slot[s].req.body.analysisType)]
                = slot[s].req.body.analysisData

PlainText(str) == StrLen(str) > 0 /\ ~HasMarkup(str)
\* the prompts of a valid general or moderation request
ValidPrompts(body) ==
    /\ TruthyUrl(body, "imageUrl") /\ JoiUri(body.imageUrl) /\ ~BlockedMatch(body.imageUrl)
    /\ DOMAIN body \subseteq {"imageUrl", "analysis_type", "prompts", "multi_label"}
    /\ Has(body, "prompts")
    /\ Len(body.prompts) \in 1..MaxPrompts
    /\ \A i \in 1..Len(body.prompts) :
         PlainText(body.prompts[i]) /\ StrLen(body.prompts[i]) <= MaxPromptLen

PromptsRequest(sl) ==
    /\ sl.pc # "idle" /\ sl.req.method = "POST" /\ sl.req.path = "/analyze"
    /\ Str(sl.req.body, "analysis_type") \in {"ai_vision_general", "ai_vision_moderation"}

\* C6: a valid POST /analyze of type general that got past the gate makes one provider call
\* whose payload is exactly { source: { uri }, prompts }, the prompts as sent, in order, with
\* their duplicates, and no multi_label; for type moderation the prompts are sent as
\* rejection_questions.
C6_PromptsVerbatim ==
    \A s \in Slots :
        PromptsRequest(slot[s]) /\ GatePassed(slot[s]) /\ ValidPrompts(slot[s].req.body)
        => /\ slot[s].calls = 1
           /\ slot[s].endpoint = slot[s].req.body.analysis_type
           /\ DOMAIN slot[s].payload = {"source", BatchField(slot[s].req.body.analysis_type)}
           /\ slot[s].payload.source = [uri |-> slot[s].req.body.imageUrl]
           /\ slot[s].payload[BatchField(slot[s].req.body.analysis_type)]
                = slot[s].req.body.prompts

\* a general request with multi_label and a repeated prompt was forwarded
C6_Witness ==
    \E s \in Slots :
        /\ PromptsRequest(slot[s]) /\ GatePassed(slot[s]) /\ ValidPrompts(slot[s].req.body)
        /\ slot[s].calls = 1
        /\ Has(slot[s].req.body, "multi_label")
        /\ \E i, j \in 1..Len(slot[s].req.body.prompts) :
             i + 1 < j /\ slot[s].req.body.prompts[i] = slot[s].req.body.prompts[j]
        /\ slot[s].payload.prompts = slot[s].req.body.prompts

\* a tag with a valid name and description, and possibly more fields
ValidTag(tag) ==
    /\ Has(tag, "name") /\ PlainText(tag.name) /\ StrLen(tag.name) <= MaxTagName
    /\ Has(tag, "description") /\ PlainText(tag.description)
    /\ StrLen(tag.description) <= MaxTagDescription

TaggingRequest(sl) ==
    /\ sl.pc # "idle" /\ sl.req.method = "POST" /\ sl.req.path = "/analyze"
    /\ Str(sl.req.body, "analysis_type") = "ai_vision_tagging"
    /\ TruthyUrl(sl.req.body, "imageUrl") /\ JoiUri(sl.req.body.imageUrl)
    /\ ~BlockedMatch(sl.req.body.imageUrl)
    /\ DOMAIN sl.req.body \subseteq {"imageUrl", "analysis_type", "tags", "multi_label"}
    /\ Has(sl.req.body, "tags")
    /\ Len(sl.req.body.tags) \in 1..MaxTags
    /\ \A i \in 1..Len(sl.req.body.tags) : ValidTag(sl.req.body.tags[i])

\* C7, as claimed: a tagging request whose tags carry fields besides name and description is
\* not rejected for them: it is forwarded, tag_definitions holding the name and the
\* description of each tag and nothing else.
C7_ExtraTagFieldsDropped ==
    \A s \in Slots :
        TaggingRequest(slot[s]) /\ GatePassed(slot[s])
        => /\ slot[s].rsp.status # 400
           /\ slot[s].calls = 1
           /\ slot[s].payload.tag_definitions
                = [i \in 1..Len(slot[s].req.body.tags) |->
                     [name |-> slot[s].req.body.tags[i].name,
                      description |-> slot[s].req.body.tags[i].description]]

\* C8, as claimed: on every analysis route of every deployment a provider call that timed out
\* is answered 408, and one that failed otherwise is answered 500 with the provider's error
\* body (the error's message when there is none) as detail.
C8_ProviderFailureMapping ==
    \A s \in Slots :
        Done(s) /\ slot[s].calls > 0 /\ ~slot[s].result.ok
        => IF slot[s].result.code = "ECONNABORTED" THEN slot[s].rsp.status = 408
           ELSE /\ slot[s].rsp.status = 500
                /\ slot[s].rsp.details = IF slot[s].result.hasResponse
                                         THEN slot[s].result.data ELSE slot[s].result.message

\* C9: a request makes at most one provider call and, when it got past the gate and the input
\* checks, exactly one, whatever the provider answers; two identical requests in flight make
\* one call each, to the same endpoint with the same payload.
C9_OneCallPerRequest ==
    /\ \A s \in Slots :
         /\ slot[s].calls <= 1
         /\ InFlight(s) /\ GatePassed(slot[s]) /\ InputOk(slot[s].req) => slot[s].calls = 1
    /\ \A s1, s2 \in Slots :
         /\ s1 # s2 /\ InFlight(s1) /\ InFlight(s2)
         /\ slot[s1].req = slot[s2].req
         /\ GatePassed(slot[s1]) /\ GatePassed(slot[s2]) /\ InputOk(slot[s1].req)
         => /\ slot[s1].calls = 1 /\ slot[s2].calls = 1
            /\ slot[s1].endpoint = slot[s2].endpoint
            /\ slot[s1].payload = slot[s2].payload

\* two identical requests are in flight, the provider call of the first has failed, and the
\* second made its own call
C9_Witness ==
    \E s1, s2 \in Slots :
        /\ s1 # s2 /\ Done(s1) /\ InFlight(s2) /\ slot[s1].req = slot[s2].req
        /\ slot[s1].calls = 1 /\ slot[s2].calls = 1
        /\ ~slot[s1].result.ok /\ slot[s1].rsp.status >= 408

\* C10: POST /analyze answers a successful provider call with 200 and the provider's result,
\* whether the webhook POST succeeds, fails or is not configured; a webhook POST is made only
\* when a webhook is configured, only by POST /analyze, and only after the provider succeeded.
C10_WebhookNeverChangesResponse ==
    \A s \in Slots :
        /\ Done(s) /\ slot[s].req.path = "/analyze" /\ slot[s].result.ok
             => slot[s].rsp = Success(slot[s].result)
        /\ slot[s].hook # "none"
             => webhookUrl /\ slot[s].result.ok /\ slot[s].req.path = "/analyze"

\* the webhook POST of an answered request failed and the answer is the provider's result
C10_Witness ==
    \E s \in Slots :
        /\ Done(s) /\ slot[s].hook = "failed" /\ variant = "serverless"
        /\ slot[s].rsp.status = 200 /\ slot[s].rsp.data = slot[s].result.data

\* C11, as claimed: on POST /analyze, once the provider call is under way the caller's
\* response is eventually sent, even if the webhook POST never completes (the app does not
\* wait for it).
C11_ResponseWithoutWebhook ==
    \A s \in Slots :
        (slot[s].pc = "upstream" /\ slot[s].req.path = "/analyze") ~> (slot[s].sent = 1)

LegacyTable == {"fGr3Ase", "88330fgvv", "gie3faavv3r1"}
LegacyRequest(sl) ==
    /\ sl.pc # "idle" /\ sl.req.method = "GET" /\ sl.req.path = "/analyze-image"
    /\ variant \in {"secured", "serverless"}
FixedTags ==
    << [name |-> "prompt1", description |-> "Tag for prompt1"],
       [name |-> "prompt2", description |-> "Tag for prompt2"] >>
\* a call made for the key fGr3Ase is the tagging analysis with the two fixed tags
LegacyTagging(sl) ==
    Str(sl.req.query, "appKey") = "fGr3Ase" /\ sl.calls > 0
    => /\ sl.endpoint = "ai_vision_tagging"
       /\ DOMAIN sl.payload = {"source", "tag_definitions"}
       /\ sl.payload.tag_definitions = FixedTags
\* imageUrl is present and an absolute http or https URL
LegacyUrlOk(q) ==
    TruthyUrl(q, "imageUrl") /\ q.imageUrl.scheme \in {"http", "https"} /\ q.imageUrl.host # ""

\* C12, as claimed: on GET /analyze-image the key fGr3Ase always selects the tagging analysis
\* with the two fixed tags, and every request whose appKey is not in the table is answered
\* 400 with code INVALID_APP_KEY and makes no provider call.
C12_UnknownKeyInvalidAppKey ==
    \A s \in Slots :
        LegacyRequest(slot[s]) /\ GatePassed(slot[s])
        => /\ LegacyTagging(slot[s])
           /\ Str(slot[s].req.query, "appKey") \notin LegacyTable
                => slot[s].calls = 0 /\ (Done(s) => Is(slot[s].rsp, 400, "INVALID_APP_KEY"))

\* C12, amended: the key fGr3Ase selects the tagging analysis with the two fixed tags; a
\* request past the gate whose appKey is not in the table is answered 400 and makes no
\* provider call; the answer is "Invalid app key" when imageUrl is a present http/https URL
\* and appKey is not empty, with code INVALID_APP_KEY in the secured deployment and without
\* code in the serverless one.
C12_UnknownKeyNeverCalls ==
    \A s \in Slots :
        LegacyRequest(slot[s]) /\ GatePassed(slot[s])
        => /\ LegacyTagging(slot[s])
           /\ Str(slot[s].req.query, "appKey") = "fGr3Ase" /\ LegacyUrlOk(slot[s].req.query)
                => slot[s].calls = 1
           /\ Str(slot[s].req.query, "appKey") \notin LegacyTable
                => /\ slot[s].calls = 0 /\ Done(s) /\ slot[s].rsp.status = 400
                   /\ LegacyUrlOk(slot[s].req.query) /\ Truthy(slot[s].req.query, "appKey")
                        => /\ slot[s].rsp.error = "Invalid app key"
                           /\ slot[s].rsp.code =
                                IF variant = "secured" THEN "INVALID_APP_KEY" ELSE ""

\* the serverless function answered a key that differs from fGr3Ase by case with 400 without
\* code and without provider call
C12_Witness ==
    \E s \in Slots :
        /\ LegacyRequest(slot[s]) /\ variant = "serverless" /\ Done(s)
        /\ slot[s].req.query.appKey = "fgr3ase"
        /\ slot[s].rsp.error = "Invalid app key" /\ slot[s].rsp.code = ""
        /\ slot[s].calls = 0

\* a request of the secured deployment that reaches the timestamp check: past CORS and the
\* limiter, with a well-formed key that is known
ReachesTimestampCheck(s) ==
    /\ InFlight(s) /\ variant = "secured" /\ slot[s].req.path \notin {"/health", "/"}
    /\ OriginOk(slot[s].req)
    /\ ~(AnalysisRoute(slot[s].req) /\ OverQuota(slot[s]))
    /\ ~(KeyMissing(slot[s].req) \/ KeyMalformed(slot[s].req) \/ KeyUnknown(slot[s].req))
Fresh(sl) == 0 <= sl.at - sl.req.ts.t /\ sl.at - sl.req.ts.t <= MaxAgeMin

\* C13, as claimed: a request with a known, well-formed key passes the timestamp check if and
\* only if X-Timestamp is absent or is an integer t with 0 <= now - t <= 5 minutes; any other
\* value is answered 400 INVALID_TIMESTAMP.
C13_TimestampIffInteger ==
    \A s \in Slots :
        ReachesTimestampCheck(s) =>
            (Is(slot[s].rsp, 400, "INVALID_TIMESTAMP")
               <=> ~(\/ slot[s].req.ts.kind = "absent"
                     \/ slot[s].req.ts.kind = "int" /\ Fresh(slot[s])))

\* C13, amended: the request passes the timestamp check if and only if X-Timestamp is absent
\* or empty, or its value starts with an integer t (what follows the digits is ignored) with
\* 0 <= now - t <= 5 minutes; a value that does not start with an integer, lies in the
\* future or is older than 5 minutes is answered 400 INVALID_TIMESTAMP.
C13_TimestampIffLeadingInteger ==
    \A s \in Slots :
        ReachesTimestampCheck(s) =>
            (Is(slot[s].rsp, 400, "INVALID_TIMESTAMP")
               <=> ~(\/ slot[s].req.ts.kind \in {"absent", "empty"}
                     \/ slot[s].req.ts.kind \in {"int", "intjunk"} /\ Fresh(slot[s])))

\* a request whose X-Timestamp is a fresh integer followed by letters went on to the provider
C13_Witness ==
    \E s \in Slots :
        /\ ReachesTimestampCheck(s) /\ slot[s].req.ts.kind = "intjunk" /\ Fresh(slot[s])
        /\ slot[s].at > 0 /\ slot[s].calls = 1

RoutePaths(v) ==
    IF v = "secured" THEN {"/health", "/", "/analyze", "/batch-analyze", "/analyze-image"}
    ELSE {"/health", "/", "/analyze"}
\* an answered request of an Express deployment whose path is the path of no route
Unmatched(s) ==
    Done(s) /\ variant \in {"secured", "express"} /\ slot[s].req.path \notin RoutePaths(variant)
IsNotFound(sl) ==
    sl.rsp.status = 404 /\ sl.rsp.error = "Not Found" /\ sl.rsp.data = sl.req.path

\* C14, as claimed: a request whose path matches no route is answered 404 with the path in
\* the body, in the secured deployment too and whatever headers it carries.
C14_UnmatchedAlways404 == \A s \in Slots : Unmatched(s) => IsNotFound(slot[s])

\* C14, amended: a request whose path matches no route is answered 404 with the path in the
\* body once it is past the gate; the secured deployment runs its gate first, and answers
\* 403 CORS_ERROR for an Origin that is not allowed, 429 for a path below a rate-limited
\* mount whose identity is over the limit, 401 for a missing, malformed or unknown key and
\* 400 INVALID_TIMESTAMP for a bad timestamp.
C14_UnmatchedBehindGate ==
    \A s \in Slots :
        Unmatched(s) =>
            IF variant = "secured" /\ ~OriginOk(slot[s].req)
            THEN Is(slot[s].rsp, 403, "CORS_ERROR")
            ELSE /\ variant = "secured" => GateVerdictIs(slot[s], TRUE)
                 /\ \/ variant = "express"
                    \/ ~(\/ OverQuota(slot[s]) \/ KeyMissing(slot[s].req)
                         \/ KeyMalformed(slot[s].req) \/ KeyUnknown(slot[s].req)
                         \/ TsBad(slot[s]))
                    => IsNotFound(slot[s])

\* the secured deployment answered 404 for an unknown path sent with a configured key
C14_Witness ==
    \E s \in Slots :
        /\ Unmatched(s) /\ variant = "secured" /\ apiKeys # {}
        /\ slot[s].req.path = "/nowhere" /\ IsNotFound(slot[s])

\* the field the analysis type requires
RequiredField(body) ==
    IF Str(body, "analysis_type") = "ai_vision_tagging" THEN "tags" ELSE "prompts"
\* a POST /analyze past the gate whose required field is missing or an empty array
LacksRequired(sl) ==
    /\ sl.pc # "idle" /\ sl.req.method = "POST" /\ sl.req.path = "/analyze"
    /\ GatePassed(sl)
    /\ Str(sl.req.body, "analysis_type") \in AnalysisTypes
    /\ \/ ~Has(sl.req.body, RequiredField(sl.req.body))
       \/ Len(sl.req.body[RequiredField(sl.req.body)]) = 0

\* C15, as claimed: a POST /analyze of type general or moderation whose prompts are missing
\* or empty, and one of type tagging whose tags are missing or empty, is answered 400 with a
\* message naming the field and is never forwarded to the provider.
C15_EmptyRejected ==
    \A s \in Slots :
        LacksRequired(slot[s])
        => /\ slot[s].calls = 0
           /\ slot[s].rsp.status = 400
           /\ RequiredField(slot[s].req.body) \in slot[s].rsp.names

LoopbackHosts == {"localhost", "127.0.0.1", "0.0.0.0"}
PrivateHosts == {"10.0.0.1"}
\* an absolute http or https URL of a public host
PublicHttpUrl(u) ==
    /\ u.scheme \in {"http", "https"} /\ u.host # ""
    /\ u.host \notin LoopbackHosts \cup PrivateHosts

\* C16, as claimed: no provider call is made with a source.uri that is not an absolute
\* http/https URL or that points to a loopback host, a private-network host or a file: or
\* data: URI, on POST /analyze, POST /batch-analyze and GET /analyze-image.
C16_OnlyPublicHttpForwarded ==
    \A s \in Slots :
        slot[s].calls > 0
        => /\ Has(slot[s].payload.source, "uri")
           /\ PublicHttpUrl(slot[s].payload.source.uri)

\* the request that arrives in this step, if one does, is of identity i
Arrives(s, i) ==
    slot[s].pc = "idle" /\ slot'[s].pc # "idle" /\ Identity(slot'[s].req) = i

\* C17: the counter of an identity falls only to zero, and only once the window duration
\* has passed since its window started, whatever the windows of the other identities do; no
\* counter outlives its window, so an identity that was answered 429 is counted from one
\* again, and admitted, by its first request after the window; a counter rises by one with
\* each request of its identity, which is answered 429 exactly when the counter is beyond
\* the limit.
C17_WindowResetsPerIdentity ==
    [][\A i \in Identities :
          /\ hits'[i] < hits[i] => hits'[i] = 0 /\ now' - windowStart[i] >= WindowMin
          /\ hits'[i] > 0 => now' - windowStart'[i] < WindowMin
          /\ hits'[i] > hits[i]
               => /\ hits'[i] = hits[i] + 1
                  /\ \E s \in Slots :
                       /\ Arrives(s, i)
                       /\ slot'[s].rsp.status = 429 <=> hits'[i] > RateMax]_vars

\* an identity whose 429 is still on display sends, after its window has elapsed, a request
\* that is counted as its first and is admitted
C17_Witness ==
    \E s1, s2 \in Slots :
        /\ Done(s1) /\ slot[s1].rsp.status = 429
        /\ InFlight(s2) /\ Identity(slot[s2].req) = Identity(slot[s1].req)
        /\ slot[s2].current = 1 /\ slot[s2].rsp.status # 429
        /\ hits[Identity(slot[s2].req)] = 1
        /\ windowStart[Identity(slot[s2].req)] >= WindowMin

\* no request in flight has had two responses, and one whose handling is over has had one
NeverTwice ==
    \A s \in Slots :
        /\ slot[s].sent <= 1
        /\ Done(s) => slot[s].sent = 1 /\ slot[s].rsp # NoRsp

\* C18, as claimed: every request to an analysis route receives exactly one response: never
\* two, and, whichever path its handling takes and whatever else is in flight, eventually
\* one.
C18_ExactlyOneResponse ==
    /\ []NeverTwice
    /\ \A s \in Slots :
         (InFlight(s) /\ AnalysisRoute(slot[s].req)) ~> (Done(s) /\ slot[s].sent = 1)
====
